---- MODULE Spec2Model ----
(***************************************************************************)
(* A model of qiling's OS-level utilities (qiling/os/utils.py, QlOsUtils): *)
(* the API-call ledger and string-appearance index, the guest string       *)
(* readers, and the Windows driver I/O request emulation (io_Write and     *)
(* ioctl).                                                                 *)
(*                                                                         *)
(* Text is a sequence of code points, a byte string a sequence of          *)
(* integers 0..255.                                                        *)
(***************************************************************************)
EXTENDS Integers, Sequences, FiniteSets, TLC

(***************************************************************************)
(* Bounds of the model.                                                    *)
(***************************************************************************)
\* recorded API calls per ledger lifetime
MaxCalls == 2
\* string observations per ledger lifetime
MaxObs == 2
\* bytes of the flat guest-memory window the string readers walk over
MemLen == 6
\* longest input buffer, and largest output buffer size, of an I/O request
MaxLen == 2
\* largest Information count a dispatch routine reports
MaxInfo == 2
\* chunks the guest heap can hand out
HeapSize == 7

\* the longest format text handed to printf and sprintf
MaxFmtLen == 3

\* the longest argument list passed by a caller
MaxArgs == 2

\* the largest step count passed to run
MaxCount == 2

\* the steps a run is followed for
MaxSteps == 3

(***************************************************************************)
(* Characters and bytes.                                                   *)
(***************************************************************************)
\* ' ', the separator of str.split(' ')
SPACE == 32
\* the code points of 'a', 'b', 'f', 'g'
ChA == 97
ChB == 98
ChF == 102
ChG == 103
\* a byte that is valid nowhere in UTF-8
BadByte == 255

\* byte values the guest-memory window is filled with
ByteVals == {0, ChA, ChB, BadByte}

\* 'hook_'
HookPrefix == <<104, 111, 111, 107, 95>>

\* API names handed to _call_api: 'hook_f', 'f', 'g'
ApiNames == {HookPrefix \o <<ChF>>, <<ChF>>, <<ChG>>}

\* texts handed to string_appearance directly: 'a', 'a b', 'b  a'
Texts == {<<ChA>>, <<ChA, SPACE, ChB>>, <<ChB, SPACE, SPACE, ChA>>}

\* return values recorded with a call
RetVals == {0, 1}

VARIABLES
    syscalls,          \* self.syscalls: name -> list of call records
    syscalls_counter,  \* self.syscalls_counter
    appeared_strings,  \* self.appeared_strings: token -> set of positions
    gmem,              \* flat window of guest memory read by read_string
    call_log,          \* history: the names recorded since the last reset, in call order
    n_obs,             \* history: string observations since the last reset
    last,              \* the operation that ran last, its argument and its result
    ql,                \* the emulator's configuration: ostype, archtype, archbit
    driver_object,     \* ql.loader.driver_object: MajorFunction table, DeviceObject
    mem,               \* guest memory, one region per object: address -> region
    heap,              \* ql.os.heap: the addresses handed out and not yet freed
    req,               \* the local variables of the I/O request in flight
    pc,                \* where the I/O request is: idle, run, recover, done, raised
    ret,               \* what the last I/O request returned
    oplog,             \* the request's calls to the heap, the memory and the emulator, in order
    fmt,               \* the formatting call: its format, its args list, how far it is
    stdout,            \* ql.os.stdout: the bytes written to it
    arch,              \* ql.arch as QlOsMcu sees it: ARM or not, the thumb bit
    runable,           \* QlOsMcu.runable
    cpu_pc,            \* what ql.arch.get_pc() returns
    run_frame          \* the locals of QlOsMcu.run: count, end, and where the loop is

ledger_vars == <<syscalls, syscalls_counter, appeared_strings, call_log, n_obs>>

io_vars == <<ql, driver_object, mem, heap, req, pc, ret, oplog>>

fmt_vars == <<fmt, stdout>>

mcu_vars == <<arch, runable, cpu_pc, run_frame>>

vars == <<syscalls, syscalls_counter, appeared_strings, gmem, call_log, n_obs, last,
          ql, driver_object, mem, heap, req, pc, ret, oplog,
          fmt, stdout, arch, runable, cpu_pc, run_frame>>

(***************************************************************************)
(* Helpers on functions used as Python dicts.                              *)
(***************************************************************************)
EmptyDict == [k \in {} |-> {}]

DictPut(d, k, v) == [x \in DOMAIN d \cup {k} |-> IF x = k THEN v ELSE d[x]]

\* dict.setdefault(k, default), the value part
SetDefault(d, k, default) == IF k \in DOMAIN d THEN d[k] ELSE default

(***************************************************************************)
(* Call ledger.                                                            *)
(***************************************************************************)
\* name.startswith('hook_') and name[5:]
StartsWith(s, prefix) ==
    /\ Len(s) >= Len(prefix)
    /\ SubSeq(s, 1, Len(prefix)) = prefix

StripHook(name) ==
    IF StartsWith(name, HookPrefix) THEN SubSeq(name, 6, Len(name)) ELSE name

\* a ledger that numbers its records from 1
RecordPosition_FromOne(counter) == counter + 1

\* the position stored in a new call record
RecordPosition(counter) == counter

\* the counter after a call was recorded
NextCounter(counter) == counter + 1

\* _call_api(address, name, params, retval, retaddr)
call_api(address, name, params, retval, retaddr) ==
    /\ syscalls_counter < MaxCalls
    /\ LET key == StripHook(name)
           rec == [params   |-> params,
                   retval   |-> retval,
                   address  |-> address,
                   retaddr  |-> retaddr,
                   position |-> RecordPosition(syscalls_counter)]
       IN  /\ syscalls' = DictPut(syscalls, key,
                                  Append(SetDefault(syscalls, key, << >>), rec))
           /\ call_log' = Append(call_log, key)
    /\ syscalls_counter' = NextCounter(syscalls_counter)
    /\ last' = [op |-> "call_api", arg |-> name, ok |-> TRUE, text |-> << >>]
    /\ UNCHANGED <<appeared_strings, gmem, n_obs>>
    /\ UNCHANGED <<io_vars, fmt_vars, mcu_vars>>

\* clear_syscalls()
clear_syscalls ==
    /\ syscalls' = EmptyDict
    /\ syscalls_counter' = 0
    /\ appeared_strings' = EmptyDict
    /\ call_log' = << >>
    /\ n_obs' = 0
    /\ last' = [op |-> "clear_syscalls", arg |-> << >>, ok |-> TRUE, text |-> << >>]
    /\ UNCHANGED gmem
    /\ UNCHANGED <<io_vars, fmt_vars, mcu_vars>>

(***************************************************************************)
(* String-appearance index.                                                *)
(***************************************************************************)
\* index of the first sep in s at or after i, 0 when there is none
RECURSIVE Find(_, _, _)
Find(s, sep, i) ==
    IF i > Len(s) THEN 0
    ELSE IF s[i] = sep THEN i
    ELSE Find(s, sep, i + 1)

\* s.split(sep) for a one-character sep: the list of tokens, empty ones included
RECURSIVE Split(_, _)
Split(s, sep) ==
    LET i == Find(s, sep, 1)
    IN  IF i = 0 THEN <<s>>
        ELSE <<SubSeq(s, 1, i - 1)>> \o Split(SubSeq(s, i + 1, Len(s)), sep)

Range(f) == {f[i] : i \in DOMAIN f}

\* the position string_appearance files a token under
AppearancePosition(counter) == counter

\* an index that keeps only the latest position of a token
Appear_Overwrite(index, s, counter) ==
    LET tokens == Range(Split(s, SPACE))
    IN  [t \in DOMAIN index \cup tokens |->
            IF t \in tokens THEN {AppearancePosition(counter)} ELSE index[t]]

\* the index after string_appearance(s): every token gets the current counter
Appear(index, s, counter) ==
    LET tokens == Range(Split(s, SPACE))
    IN  [t \in DOMAIN index \cup tokens |->
            IF t \in tokens
            THEN SetDefault(index, t, {}) \cup {AppearancePosition(counter)}
            ELSE index[t]]

\* string_appearance(s)
string_appearance(s) ==
    /\ n_obs < MaxObs
    /\ appeared_strings' = Appear(appeared_strings, s, syscalls_counter)
    /\ n_obs' = n_obs + 1
    /\ last' = [op |-> "string_appearance", arg |-> s, ok |-> TRUE, text |-> s]
    /\ UNCHANGED <<syscalls, syscalls_counter, gmem, call_log>>
    /\ UNCHANGED <<io_vars, fmt_vars, mcu_vars>>

(***************************************************************************)
(* Guest string readers.                                                   *)
(***************************************************************************)
\* ql.mem.read(address, size) on the window: the bytes, or a fault when the
\* range leaves mapped memory
Mapped(address, size) == address >= 0 /\ address + size <= Len(gmem)

MemBytes(address, size) == [i \in 1..size |-> gmem[address + i]]

\* bytes.decode(errors="ignore"): UTF-8 with undecodable bytes dropped. A chunk
\* is at most two bytes long, so only one- and two-byte sequences can decode.
RECURSIVE Decode(_)
Decode(b) ==
    IF b = << >> THEN << >>
    ELSE IF b[1] < 128 THEN <<b[1]>> \o Decode(Tail(b))
    ELSE IF /\ b[1] >= 194 /\ b[1] <= 223 /\ Len(b) >= 2
            /\ b[2] >= 128 /\ b[2] <= 191
         THEN <<(b[1] - 192) * 64 + (b[2] - 128)>> \o Decode(Tail(Tail(b)))
    ELSE Decode(Tail(b))

\* a reader that advances by one byte whatever the terminator's width
NextChunk_ByOne(address, charlen) == address + 1

\* the address of the chunk read after the one at address
NextChunk(address, charlen) == address + charlen

\* the loop of read_string: result so far, next chunk at address
RECURSIVE ReadLoop(_, _, _)
ReadLoop(address, terminator, result) ==
    LET charlen == Len(terminator)
    IN  IF ~Mapped(address, charlen) THEN [ok |-> FALSE, text |-> << >>]
        ELSE LET char == Decode(MemBytes(address, charlen))
             IN  IF char = terminator THEN [ok |-> TRUE, text |-> result]
                 ELSE ReadLoop(NextChunk(address, charlen), terminator, result \o char)

\* read_string(ql, address, terminator)
read_string(address, terminator) == ReadLoop(address, terminator, << >>)

\* s.replace("\x00", "")
StripNul(s) == SelectSeq(s, LAMBDA c : c # 0)

\* the text read_wstring returns for what read_string gave it
WideText(s) == StripNul(s)

\* what a reader does with an observed string: file it, or nothing after a fault
Observe(r) ==
    IF r.ok
    THEN /\ appeared_strings' = Appear(appeared_strings, r.text, syscalls_counter)
         /\ n_obs' = n_obs + 1
    ELSE UNCHANGED <<appeared_strings, n_obs>>

\* read_wstring(address)
read_wstring(address) ==
    /\ n_obs < MaxObs
    /\ LET s == read_string(address, <<0, 0>>)
           r == IF s.ok THEN [ok |-> TRUE, text |-> WideText(s.text)] ELSE s
       IN  /\ Observe(r)
           /\ last' = [op |-> "read_wstring", arg |-> address, ok |-> r.ok, text |-> r.text]
    /\ UNCHANGED <<syscalls, syscalls_counter, gmem, call_log>>
    /\ UNCHANGED <<io_vars, fmt_vars, mcu_vars>>

\* read_cstring(address)
read_cstring(address) ==
    /\ n_obs < MaxObs
    /\ LET r == read_string(address, <<0>>)
       IN  /\ Observe(r)
           /\ last' = [op |-> "read_cstring", arg |-> address, ok |-> r.ok, text |-> r.text]
    /\ UNCHANGED <<syscalls, syscalls_counter, gmem, call_log>>
    /\ UNCHANGED <<io_vars, fmt_vars, mcu_vars>>

(***************************************************************************)
(* Windows driver I/O: constants, Python values, guest memory, guest heap. *)
(***************************************************************************)
\* wdk_const: major function codes, device-object flags, transfer methods
IRP_MJ_WRITE == 4
IRP_MJ_DEVICE_CONTROL == 14
DO_BUFFERED_IO == 4
DO_DIRECT_IO == 16
METHOD_BUFFERED == 0
METHOD_IN_DIRECT == 1
METHOD_OUT_DIRECT == 2
METHOD_NEITHER == 3

\* NTSTATUS values a dispatch routine leaves in the IRP, as the signed 32-bit
\* numbers IoStatus.Status reads as: STATUS_SUCCESS, STATUS_PENDING and
\* STATUS_UNSUCCESSFUL (0xC0000001)
STATUS_SUCCESS == 0
STATUS_PENDING == 259
STATUS_UNSUCCESSFUL == -1073741823
StatusVals == {STATUS_SUCCESS, STATUS_PENDING, STATUS_UNSUCCESSFUL}

\* where the loader put the device object and the driver's dispatch routines
DeviceObjectAddr == 8
WriteEntry == 4096
DeviceControlEntry == 8192

\* the first address of the guest heap
HeapBase == 16
HeapAddrs == HeapBase..(HeapBase + HeapSize - 1)

\* what a chunk taken from the heap holds before it is written: zeroes when the
\* heap mapped it afresh, otherwise bytes left there by an earlier owner
StaleByte == 205
FillVals == {0, StaleByte}

\* the input buffers of requests: b'', b'A', b'AB', b'ABA', ...
InBuffers == {[i \in 1..n |-> 65 + ((i + 1) % 2)] : n \in 0..MaxLen}

\* the platforms the emulator is configured for
Platforms ==
    {[ostype |-> "WINDOWS", archtype |-> "X86",   archbit |-> 32],
     [ostype |-> "WINDOWS", archtype |-> "X8664", archbit |-> 64],
     [ostype |-> "LINUX",   archtype |-> "X8664", archbit |-> 64],
     [ostype |-> "LINUX",   archtype |-> "ARM64", archbit |-> 64]}

\* Python values of differing types, kept apart by their field name
PyNone == [none |-> TRUE]
PyBool(b) == [bool |-> b]
PyInt(i) == [int |-> i]
PyBytes(b) == [bytes |-> b]
PyTuple(t) == [tuple |-> t]

\* regions of guest memory
Raw(bytes) == [type |-> "raw", bytes |-> bytes]
Uninit(type) == [type |-> "uninit", of |-> type]
Freed == [type |-> "freed"]
Filled(size, byte) == [i \in 1..size |-> byte]

\* the 32- or 64-bit variant of a structure that code selects by comparing
\* ql.archtype with QL_ARCH.X8664
VariantByArchtype == IF ql.archtype = "X8664" THEN 64 ELSE 32
\* the variant selected by ql.archbit == 32
VariantByArchbit == IF ql.archbit = 32 THEN 32 ELSE 64

\* IRP32() / IRP64(): a zeroed IRP
NewIrp(layout) ==
    [type |-> "IRP", layout |-> layout, irpstack |-> 0, SystemBuffer |-> 0,
     MdlAddress |-> 0, UserBuffer |-> 0, Status |-> 0, Information |-> 0]

\* IO_STACK_LOCATION32() / IO_STACK_LOCATION64(): a zeroed stack location
NewIrpStack(layout) ==
    [type |-> "IO_STACK_LOCATION", layout |-> layout, MajorFunction |-> 0,
     WriteLength |-> 0, IoControlCode |-> 0, OutputBufferLength |-> 0,
     InputBufferLength |-> 0, Type3InputBuffer |-> 0]

\* MDL32() / MDL64(): a zeroed MDL
NewMdl(layout) ==
    [type |-> "MDL", layout |-> layout, MappedSystemVa |-> 0, StartVa |-> 0,
     ByteOffset |-> 0, ByteCount |-> 0]

NoMdl == [type |-> "unbound"]

\* the device object the loader left in guest memory
DeviceObject(layout, flags) ==
    [type |-> "DEVICE_OBJECT", layout |-> layout, Flags |-> flags]

\* "and" in the place of "&": 1 when both operands are non-zero
BitAnd_Logical(x, y) == IF x # 0 /\ y # 0 THEN 1 ELSE 0

\* x & y, x | y and x << n on non-negative integers
RECURSIVE BitAnd(_, _)
BitAnd(x, y) ==
    IF x = 0 \/ y = 0 THEN 0
    ELSE (IF x % 2 = 1 /\ y % 2 = 1 THEN 1 ELSE 0) + 2 * BitAnd(x \div 2, y \div 2)

RECURSIVE BitOr(_, _)
BitOr(x, y) ==
    IF x = 0 THEN y
    ELSE IF y = 0 THEN x
    ELSE (IF x % 2 = 1 \/ y % 2 = 1 THEN 1 ELSE 0) + 2 * BitOr(x \div 2, y \div 2)

ShiftLeft(x, n) == x * (2 ^ n)

(***************************************************************************)
(* A request threads a context through its calls: guest memory, the heap,  *)
(* the list alloc_addr and the log of calls made so far.                   *)
(***************************************************************************)
\* one call: what was called, on which address, with which size, for what. The
\* size of a structure is ctypes.sizeof of one of its two layouts: it is kept
\* as the word size of that layout, 32 or 64
Event(op, addr, size, what) == [op |-> op, addr |-> addr, size |-> size, what |-> what]

Logged(c, e) == [c EXCEPT !.log = Append(@, e)]

\* the address heap.alloc returns next: the lowest chunk not in use
Min(S) == CHOOSE x \in S : \A y \in S : x <= y
NextAlloc(c) == IF HeapAddrs \ c.heap = {} THEN 0 ELSE Min(HeapAddrs \ c.heap)

\* heap.alloc(size) for a buffer of size bytes
HeapAlloc(c, size) ==
    LET a == NextAlloc(c)
    IN  IF a = 0 THEN [c EXCEPT !.ok = FALSE]
        ELSE Logged([c EXCEPT !.heap = @ \cup {a},
                              !.mem[a] = Raw(Filled(size, c.fill))],
                    Event("alloc", a, size, "raw"))

\* heap.alloc(ctypes.sizeof(T)) for a structure T
HeapAllocStruct(c, type) ==
    LET a == NextAlloc(c)
    IN  IF a = 0 THEN [c EXCEPT !.ok = FALSE]
        ELSE Logged([c EXCEPT !.heap = @ \cup {a}, !.mem[a] = Uninit(type)],
                    Event("alloc", a, VariantByArchtype, type))

\* heap.free(addr); what a freed chunk holds is the heap's business
HeapFree(c, addr) ==
    Logged([c EXCEPT !.heap = @ \ {addr}, !.mem[addr] = Freed],
           Event("free", addr, 0, "chunk"))

\* a request that leaves its last allocation out of the release
RECURSIVE FreeAll_ButLast(_, _)
FreeAll_ButLast(c, addrs) ==
    IF Len(addrs) <= 1 THEN c
    ELSE FreeAll_ButLast(HeapFree(c, Head(addrs)), Tail(addrs))

\* a release that looks at every chunk once more after it was freed
RECURSIVE FreeAll_ThenRead(_, _)
FreeAll_ThenRead(c, addrs) ==
    IF addrs = << >> THEN c
    ELSE Logged(FreeAll_ThenRead(HeapFree(c, Head(addrs)), Tail(addrs)),
                Event("read", Head(addrs), 0, "chunk"))

\* for addr in alloc_addr: heap.free(addr)
RECURSIVE FreeAll(_, _)
FreeAll(c, addrs) ==
    IF addrs = << >> THEN c
    ELSE FreeAll(HeapFree(c, Head(addrs)), Tail(addrs))

\* alloc_addr.append(addr)
Track(c, addr) == [c EXCEPT !.alloc_addr = Append(@, addr)]

\* the bytes of a region; a structure or a freed chunk read as bytes yields none
BytesOf(region) == IF region.type = "raw" THEN region.bytes ELSE << >>

\* ql.mem.write(addr, data) for a byte string: the region's first bytes change
MemWrite(c, addr, data) ==
    LET old == BytesOf(c.mem[addr])
        new == [i \in 1..(IF Len(data) > Len(old) THEN Len(data) ELSE Len(old)) |->
                   IF i <= Len(data) THEN data[i] ELSE old[i]]
    IN  Logged([c EXCEPT !.mem[addr] = Raw(new)], Event("write", addr, Len(data), "raw"))

\* ql.mem.write(addr, bytes(struct))
MemWriteStruct(c, addr, struct) ==
    Logged([c EXCEPT !.mem[addr] = struct], Event("write", addr, struct.layout, struct.type))

\* the bytes past the end of a region, which belong to whatever lies behind it
BeyondByte == 238

\* ql.mem.read(addr, size) for a byte string
ReadBytes(m, addr, size) ==
    LET b == BytesOf(m[addr])
    IN  [i \in 1..size |-> IF i <= Len(b) THEN b[i] ELSE BeyondByte]

\* the log entry of ql.mem.read
ReadLogged(c, addr, size, what) == Logged(c, Event("read", addr, size, what))

\* build_mdl(buffer_size, data): the context afterwards, and the MDL built
BuildMdlCtx(c, buffer_size, data) ==
    LET mapped_address == NextAlloc(c)
        c1 == Track(HeapAlloc(c, buffer_size), mapped_address)
    IN  IF data # << >>
        THEN MemWrite(c1, mapped_address,
                      IF Len(data) <= buffer_size THEN data ELSE SubSeq(data, 1, buffer_size))
        ELSE c1

build_mdl(c, buffer_size, data) ==
    [NewMdl(VariantByArchtype) EXCEPT
        !.MappedSystemVa = NextAlloc(c),
        !.StartVa = NextAlloc(c),
        !.ByteOffset = 0,
        !.ByteCount = buffer_size]

\* the context a request starts from
StartCtx(fill) ==
    [mem |-> mem, heap |-> heap, alloc_addr |-> << >>, log |-> << >>,
     ok |-> TRUE, fill |-> fill]

\* the locals of a request before anything is bound
NoRequest ==
    [kind |-> "none", in_buffer |-> << >>, output_buffer_size |-> 0,
     ioctl_code |-> <<0, 0, 0, 0>>, ctl_method |-> 0, flags |-> 0,
     alloc_addr |-> << >>, irp_addr |-> 0, irpstack_addr |-> 0,
     system_buffer_addr |-> 0, input_buffer_addr |-> 0, output_buffer_addr |-> 0,
     mdl_addr |-> 0, mdl |-> NoMdl, entry |-> 0, fault |-> "none"]

(***************************************************************************)
(* io_Write(in_buffer)                                                     *)
(***************************************************************************)
\* a validation that takes every entry for registered
Unregistered_Never(entry) == FALSE

\* the test made of a dispatch-table entry before anything else is done
Unregistered(entry) == entry = 0

\* what io_Write returns for an unregistered entry
WriteRejected == PyTuple(<<PyBool(FALSE), PyNone>>)

\* the context and the IRP once io_Write has staged in_buffer for the device's
\* buffering mode
StageWrite(c, irp, flags, in_buffer) ==
    IF BitAnd(flags, DO_BUFFERED_IO) # 0
    THEN \* BUFFERED_IO
         LET system_buffer_addr == NextAlloc(c)
             c1 == MemWrite(Track(HeapAlloc(c, Len(in_buffer)), system_buffer_addr),
                            system_buffer_addr, in_buffer)
         IN  [ctx |-> c1, mdl |-> NoMdl, mdl_addr |-> 0,
              system_buffer_addr |-> system_buffer_addr, input_buffer_addr |-> 0,
              irp |-> [irp EXCEPT !.SystemBuffer = system_buffer_addr]]
    ELSE IF BitAnd(flags, DO_DIRECT_IO) # 0
    THEN \* DIRECT_IO
         LET mdl == build_mdl(c, Len(in_buffer), << >>)
             c1 == BuildMdlCtx(c, Len(in_buffer), << >>)
             mdl_addr == NextAlloc(c1)
             c2 == MemWriteStruct(Track(HeapAllocStruct(c1, "MDL"), mdl_addr), mdl_addr, mdl)
         IN  [ctx |-> c2, mdl |-> mdl, mdl_addr |-> mdl_addr,
              system_buffer_addr |-> 0, input_buffer_addr |-> 0,
              irp |-> [irp EXCEPT !.MdlAddress = mdl_addr]]
    ELSE \* NEITHER_IO
         LET input_buffer_addr == NextAlloc(c)
             c1 == MemWrite(Track(HeapAlloc(c, Len(in_buffer)), input_buffer_addr),
                            input_buffer_addr, in_buffer)
         IN  [ctx |-> c1, mdl |-> NoMdl, mdl_addr |-> 0,
              system_buffer_addr |-> 0, input_buffer_addr |-> input_buffer_addr,
              irp |-> [irp EXCEPT !.UserBuffer = input_buffer_addr]]

\* a call that passes the IRP first and the device object second
CallDispatch_Swapped(c, irp_addr, entry) ==
    Logged(Logged(c, Event("writeParams", irp_addr, driver_object.DeviceObject, "POINTER")),
           Event("run", entry, 0, "entry"))

\* the call of the dispatch routine: the two parameters, then ql.run(entry)
CallDispatch(c, irp_addr, entry) ==
    Logged(Logged(c, Event("writeParams", driver_object.DeviceObject, irp_addr, "POINTER")),
           Event("run", entry, 0, "entry"))

\* io_Write up to the call of the dispatch routine
io_Write(in_buffer, fill) ==
    LET entry == driver_object.MajorFunction[IRP_MJ_WRITE]
    IN
    /\ pc = "idle"
    /\ IF ql.ostype = "WINDOWS" /\ Unregistered(entry)
       THEN /\ ret' = WriteRejected
            /\ pc' = "done"
            /\ req' = [NoRequest EXCEPT !.kind = "io_Write", !.in_buffer = in_buffer,
                                        !.entry = entry]
            /\ oplog' = << >>
            /\ UNCHANGED <<mem, heap>>
       ELSE LET c0 == ReadLogged(StartCtx(fill), driver_object.DeviceObject, VariantByArchbit,
                                 "DEVICE_OBJECT")
                device_object == mem[driver_object.DeviceObject]
                \* allocate memory regions for IRP and IO_STACK_LOCATION
                irp_addr == NextAlloc(c0)
                c1 == Track(HeapAllocStruct(c0, "IRP"), irp_addr)
                irpstack_addr == NextAlloc(c1)
                c2 == Track(HeapAllocStruct(c1, "IO_STACK_LOCATION"), irpstack_addr)
                irpstack == [NewIrpStack(VariantByArchtype) EXCEPT
                                !.MajorFunction = IRP_MJ_WRITE,
                                !.WriteLength = Len(in_buffer)]
                irp0 == [NewIrp(VariantByArchtype) EXCEPT !.irpstack = irpstack_addr]
                c3 == MemWriteStruct(c2, irpstack_addr, irpstack)
                st == StageWrite(c3, irp0, device_object.Flags, in_buffer)
                \* everything is done! Write IRP to memory
                c4 == MemWriteStruct(st.ctx, irp_addr, st.irp)
                c5 == CallDispatch(c4, irp_addr, entry)
            IN  /\ c5.ok
                /\ mem' = c5.mem
                /\ heap' = c5.heap
                /\ oplog' = c5.log
                /\ req' = [NoRequest EXCEPT
                              !.kind = "io_Write", !.in_buffer = in_buffer,
                              !.flags = device_object.Flags,
                              !.alloc_addr = c5.alloc_addr,
                              !.irp_addr = irp_addr, !.irpstack_addr = irpstack_addr,
                              !.system_buffer_addr = st.system_buffer_addr,
                              !.input_buffer_addr = st.input_buffer_addr,
                              !.mdl_addr = st.mdl_addr, !.mdl = st.mdl,
                              !.entry = entry]
                /\ pc' = "run"
                /\ ret' = PyNone
    /\ UNCHANGED <<ql, driver_object>>
    /\ UNCHANGED <<ledger_vars, gmem, last, fmt_vars, mcu_vars>>

\* the success flag io_Write returns
WriteSuccessFlag(irp) == TRUE

\* io_Write after the dispatch routine came back: read the IRP, free, return
io_Write_return ==
    /\ pc = "recover"
    /\ req.kind = "io_Write"
    /\ LET c0 == [StartCtx(0) EXCEPT !.alloc_addr = req.alloc_addr, !.log = oplog]
           \* read current IRP state
           c1 == ReadLogged(c0, req.irp_addr, VariantByArchtype, "IRP")
           irp == mem[req.irp_addr]
           \* now free all alloc memory
           c2 == FreeAll(c1, req.alloc_addr)
       IN  /\ mem' = c2.mem
           /\ heap' = c2.heap
           /\ oplog' = c2.log
           /\ ret' = PyTuple(<<PyBool(WriteSuccessFlag(irp)), PyInt(irp.Information)>>)
    /\ pc' = "done"
    /\ UNCHANGED <<ql, driver_object, req>>
    /\ UNCHANGED <<ledger_vars, gmem, last, fmt_vars, mcu_vars>>

(***************************************************************************)
(* The dispatch routine: guest code run by ql.run.                         *)
(***************************************************************************)
\* the byte a dispatch routine that fills its buffers leaves at addr
GuestByte(addr) == 128 + addr

\* the buffers of the request the dispatch routine can reach
RawBuffers == {a \in Range(req.alloc_addr) : mem[a].type = "raw"}

\* a classifier that re-raises every fault
VerifyRet_Strict(outcome) == "raised"

\* verify_ret(ql, err): returns for a fault it takes as benign, re-raises the rest
VerifyRet(outcome) == IF outcome = "fatal" THEN "raised" ELSE "recover"

\* the dispatch routine runs: it leaves a status and an information count in
\* the IRP, may fill the request's buffers, and returns or faults
Dispatch(status, information, touch, outcome) ==
    /\ pc = "run"
    /\ mem' = [a \in DOMAIN mem |->
                 IF a = req.irp_addr
                 THEN [mem[a] EXCEPT !.Status = status, !.Information = information]
                 ELSE IF touch /\ a \in RawBuffers
                 THEN Raw(Filled(Len(mem[a].bytes), GuestByte(a)))
                 ELSE mem[a]]
    /\ req' = [req EXCEPT !.fault = outcome]
    /\ oplog' = Append(oplog, Event(IF outcome = "return" THEN "returned" ELSE "UcError",
                                    req.entry, 0, outcome))
    /\ pc' = IF outcome = "return" THEN "recover" ELSE VerifyRet(outcome)
    /\ UNCHANGED <<ql, driver_object, heap, ret>>
    /\ UNCHANGED <<ledger_vars, gmem, last, fmt_vars, mcu_vars>>

(***************************************************************************)
(* ioctl(params)                                                           *)
(***************************************************************************)
\* a control code with the transfer method and the access rights swapped
ioctl_code_Swapped(DeviceType, Function, Method, Access) ==
    BitOr(BitOr(BitOr(ShiftLeft(DeviceType, 16), ShiftLeft(Method, 14)),
                ShiftLeft(Function, 2)), Access)

\* ioctl_code(DeviceType, Function, Method, Access)
ioctl_code(DeviceType, Function, Method, Access) ==
    BitOr(BitOr(BitOr(ShiftLeft(DeviceType, 16), ShiftLeft(Access, 14)),
                ShiftLeft(Function, 2)), Method)

\* what ioctl returns for an unregistered entry
IoctlRejected == PyTuple(<<PyNone, PyNone, PyNone>>)

\* a system buffer sized to the input alone
Max_First(x, y) == x

Max(x, y) == IF x >= y THEN x ELSE y

\* the context, the IRP and the MDL once ioctl has set up the system buffer
\* and, for the direct methods, the MDL
StageIoctl(c, irp, ctl_method, output_buffer_size, in_buffer) ==
    LET \* allocate memory for AssociatedIrp.SystemBuffer
        system_buffer_size == Max(Len(in_buffer), output_buffer_size)
        system_buffer_addr == NextAlloc(c)
        \* init data from input buffer
        c1 == MemWrite(Track(HeapAlloc(c, system_buffer_size), system_buffer_addr),
                       system_buffer_addr, in_buffer)
        irp1 == [irp EXCEPT !.SystemBuffer = system_buffer_addr]
    IN  IF ctl_method \in {METHOD_IN_DIRECT, METHOD_OUT_DIRECT}
        THEN \* Create MDL structure for output data
             LET mdl == build_mdl(c1, output_buffer_size, << >>)
                 c2 == BuildMdlCtx(c1, output_buffer_size, << >>)
                 mdl_addr == NextAlloc(c2)
                 c3 == MemWriteStruct(Track(HeapAllocStruct(c2, "MDL"), mdl_addr),
                                      mdl_addr, mdl)
             IN  [ctx |-> c3, mdl |-> mdl, mdl_addr |-> mdl_addr,
                  system_buffer_addr |-> system_buffer_addr,
                  irp |-> [irp1 EXCEPT !.MdlAddress = mdl_addr]]
        ELSE [ctx |-> c1, mdl |-> NoMdl, mdl_addr |-> 0,
              system_buffer_addr |-> system_buffer_addr, irp |-> irp1]

\* ioctl up to the call of the dispatch routine
ioctl(params, fill) ==
    LET entry == driver_object.MajorFunction[IRP_MJ_DEVICE_CONTROL]
        output_buffer_size == params[2]
        in_buffer == params[3]
        devicetype == params[1][1]
        function == params[1][2]
        ctl_method == params[1][3]
        access == params[1][4]
        bound == [NoRequest EXCEPT !.kind = "ioctl", !.in_buffer = in_buffer,
                                   !.output_buffer_size = output_buffer_size,
                                   !.ioctl_code = params[1], !.ctl_method = ctl_method,
                                   !.entry = entry]
    IN
    /\ pc = "idle"
    /\ IF ql.ostype = "WINDOWS"
       THEN IF Unregistered(entry)
            THEN /\ ret' = IoctlRejected
                 /\ pc' = "done"
                 /\ req' = bound
                 /\ oplog' = << >>
                 /\ UNCHANGED <<mem, heap>>
            ELSE LET c0 == StartCtx(fill)
                     \* create new memory region to store input data
                     input_buffer_addr == NextAlloc(c0)
                     c1 == MemWrite(Track(HeapAlloc(c0, Len(in_buffer)), input_buffer_addr),
                                    input_buffer_addr, in_buffer)
                     \* create new memory region to store out data
                     output_buffer_addr == NextAlloc(c1)
                     c2 == Track(HeapAlloc(c1, output_buffer_size), output_buffer_addr)
                     \* allocate memory regions for IRP and IO_STACK_LOCATION
                     irp_addr == NextAlloc(c2)
                     c3 == Track(HeapAllocStruct(c2, "IRP"), irp_addr)
                     irpstack_addr == NextAlloc(c3)
                     c4 == Track(HeapAllocStruct(c3, "IO_STACK_LOCATION"), irpstack_addr)
                     irp0 == [NewIrp(VariantByArchtype) EXCEPT !.irpstack = irpstack_addr]
                     irpstack == [NewIrpStack(VariantByArchtype) EXCEPT
                                     !.IoControlCode =
                                         ioctl_code(devicetype, function, ctl_method, access),
                                     !.OutputBufferLength = output_buffer_size,
                                     !.InputBufferLength = Len(in_buffer),
                                     !.Type3InputBuffer = input_buffer_addr]
                     c5 == MemWriteStruct(c4, irpstack_addr, irpstack)
                     irp1 == IF ctl_method = METHOD_NEITHER
                             THEN [irp0 EXCEPT !.UserBuffer = output_buffer_addr]
                             ELSE irp0
                     st == StageIoctl(c5, irp1, ctl_method, output_buffer_size, in_buffer)
                     \* everything is done! Write IRP to memory
                     c6 == MemWriteStruct(st.ctx, irp_addr, st.irp)
                     c7 == CallDispatch(c6, irp_addr, entry)
                 IN  /\ c7.ok
                     /\ mem' = c7.mem
                     /\ heap' = c7.heap
                     /\ oplog' = c7.log
                     /\ req' = [bound EXCEPT
                                   !.alloc_addr = c7.alloc_addr,
                                   !.irp_addr = irp_addr, !.irpstack_addr = irpstack_addr,
                                   !.system_buffer_addr = st.system_buffer_addr,
                                   !.input_buffer_addr = input_buffer_addr,
                                   !.output_buffer_addr = output_buffer_addr,
                                   !.mdl_addr = st.mdl_addr, !.mdl = st.mdl]
                     /\ pc' = "run"
                     /\ ret' = PyNone
       ELSE \* TODO: IOCTL for non-Windows.
            /\ ret' = PyNone
            /\ pc' = "done"
            /\ req' = bound
            /\ oplog' = << >>
            /\ UNCHANGED <<mem, heap>>
    /\ UNCHANGED <<ql, driver_object>>
    /\ UNCHANGED <<ledger_vars, gmem, last, fmt_vars, mcu_vars>>

\* a status test that takes only STATUS_SUCCESS for success
StatusIsSuccess_ZeroOnly(status) == status = 0

\* io_status.Status.Status >= 0
StatusIsSuccess(status) == status >= 0

\* the address the output data is read from, by transfer method; 0: nothing is read
OutputLocation(ctl_method, r) ==
    IF ctl_method = METHOD_BUFFERED THEN r.system_buffer_addr
    ELSE IF ctl_method \in {METHOD_IN_DIRECT, METHOD_OUT_DIRECT} THEN r.mdl.MappedSystemVa
    ELSE IF ctl_method = METHOD_NEITHER THEN r.output_buffer_addr
    ELSE 0

\* ioctl after the dispatch routine came back: read the IRP and the output
\* data, free, return
ioctl_return ==
    /\ pc = "recover"
    /\ req.kind = "ioctl"
    /\ LET c0 == [StartCtx(0) EXCEPT !.alloc_addr = req.alloc_addr, !.log = oplog]
           \* read current IRP state
           c1 == ReadLogged(c0, req.irp_addr, VariantByArchtype, "IRP")
           irp == mem[req.irp_addr]
           \* read output data
           from == OutputLocation(req.ctl_method, req)
           reads == StatusIsSuccess(irp.Status) /\ from # 0
           output_data == IF reads THEN ReadBytes(mem, from, irp.Information) ELSE << >>
           c2 == IF reads THEN ReadLogged(c1, from, irp.Information, "raw") ELSE c1
           \* now free all alloc memory
           c3 == FreeAll(c2, req.alloc_addr)
       IN  /\ mem' = c3.mem
           /\ heap' = c3.heap
           /\ oplog' = c3.log
           /\ ret' = PyTuple(<<PyInt(irp.Status), PyInt(irp.Information),
                               PyBytes(output_data)>>)
    /\ pc' = "done"
    /\ UNCHANGED <<ql, driver_object, req>>
    /\ UNCHANGED <<ledger_vars, gmem, last, fmt_vars, mcu_vars>>

(***************************************************************************)
(* printf and sprintf.                                                     *)
(***************************************************************************)
\* characters of format texts: '%', 's', 'd', '2', 'z', 'p'; and the ones
\* formatting adds: 'x', 'l', '#', '0'
PERCENT == 37
ChS == 115
ChD == 100
Ch2 == 50
ChZ == 122
ChP == 112
ChX == 120
ChL == 108
HASH == 35
Ch0 == 48

\* a Python str among Python values
PyStr(s) == [str |-> s]

IsInt(v) == DOMAIN v = {"int"}

\* the formatting call before anything was called
NoCall ==
    [stage |-> "idle", op |-> "none", format |-> << >>, passed |-> << >>,
     args |-> << >>, wstring |-> FALSE, buff |-> 0, ok |-> TRUE, out |-> << >>,
     ret |-> PyNone]

\* s.replace(old, new)
RECURSIVE Replace(_, _, _)
Replace(s, old, new) ==
    IF Len(s) < Len(old) THEN s
    ELSE IF SubSeq(s, 1, Len(old)) = old
         THEN new \o Replace(SubSeq(s, Len(old) + 1, Len(s)), old, new)
    ELSE <<Head(s)>> \o Replace(Tail(s), old, new)

\* s.count(ch)
Count(s, ch) == Len(SelectSeq(s, LAMBDA c : c = ch))

\* ql.pointersize
PointerSize == ql.archbit \div 8

\* ql.unpack(b): the little-endian unsigned integer in b
RECURSIVE Unpack(_)
Unpack(b) == IF b = << >> THEN 0 ELSE b[1] + 256 * Unpack(Tail(b))

\* va_list(format, ptr): one pointer-sized word for every '%' of format; the
\* read faults when a word lies outside mapped memory
va_list(format, ptr) ==
    LET count == Count(format, PERCENT)
    IN  IF \E i \in 0..(count - 1) : ~Mapped(ptr + i * PointerSize, PointerSize)
        THEN [ok |-> FALSE, args |-> << >>]
        ELSE [ok |-> TRUE,
              args |-> [k \in 1..count |->
                          PyInt(Unpack(MemBytes(ptr + (k - 1) * PointerSize, PointerSize)))]]

\* read_wstring or read_cstring, the value returned
ReadText(address, wstring) ==
    IF wstring
    THEN LET s == read_string(address, <<0, 0>>)
         IN  IF s.ok THEN [ok |-> TRUE, text |-> WideText(s.text)] ELSE s
    ELSE read_string(address, <<0>>)

\* for i, f in enumerate(fmtstr): if f.startswith("s"): args[i] = read_string(args[i]).
\* seen collects the strings read, which the readers file in the index; an
\* args list shorter than the pieces, or a read outside mapped memory, raises
RECURSIVE DerefLoop(_, _, _, _, _)
DerefLoop(fmtstr, i, args, wstring, seen) ==
    IF i > Len(fmtstr) THEN [ok |-> TRUE, args |-> args, seen |-> seen]
    ELSE IF ~StartsWith(fmtstr[i], <<ChS>>)
         THEN DerefLoop(fmtstr, i + 1, args, wstring, seen)
    ELSE IF i > Len(args) \/ ~IsInt(args[i])
         THEN [ok |-> FALSE, args |-> args, seen |-> seen]
    ELSE LET r == ReadText(args[i].int, wstring)
         IN  IF ~r.ok THEN [ok |-> FALSE, args |-> args, seen |-> seen]
             ELSE DerefLoop(fmtstr, i + 1, [args EXCEPT ![i] = PyStr(r.text)],
                            wstring, Append(seen, r.text))

(***************************************************************************)
(* out % tuple(args): Python's printf-style formatting, for the characters *)
(* above. Of the flags only '#' occurs, of the conversions 's', 'd', 'x';  *)
(* any other conversion character is unsupported.                          *)
(***************************************************************************)
FlagChars == {HASH, 45, 43, SPACE, Ch0}

IsDigit(c) == c >= Ch0 /\ c <= Ch0 + 9

\* the first position at or after j that holds no flag
RECURSIVE SkipFlags(_, _)
SkipFlags(f, j) == IF j <= Len(f) /\ f[j] \in FlagChars THEN SkipFlags(f, j + 1) ELSE j

\* the first position at or after j that holds no digit
RECURSIVE SkipDigits(_, _)
SkipDigits(f, j) == IF j <= Len(f) /\ IsDigit(f[j]) THEN SkipDigits(f, j + 1) ELSE j

\* the number written in f[a..b-1], 0 when there is none
RECURSIVE WidthVal(_, _, _)
WidthVal(f, a, b) ==
    IF a >= b THEN 0 ELSE 10 * WidthVal(f, a, b - 1) + (f[b - 1] - Ch0)

\* str(n) for n >= 0
RECURSIVE Decimal(_)
Decimal(n) == IF n < 10 THEN <<Ch0 + n>> ELSE Decimal(n \div 10) \o <<Ch0 + (n % 10)>>

HexDigit(d) == IF d < 10 THEN Ch0 + d ELSE ChA + (d - 10)

\* '%x' % n for n >= 0
RECURSIVE Hex(_)
Hex(n) == IF n < 16 THEN <<HexDigit(n)>> ELSE Hex(n \div 16) \o <<HexDigit(n % 16)>>

\* str(v)
Str(v) == IF IsInt(v) THEN Decimal(v.int) ELSE v.str

\* right-justified in width
Pad(text, width) ==
    IF Len(text) >= width THEN text
    ELSE [i \in 1..(width - Len(text)) |-> SPACE] \o text

\* one conversion applied to the argument v
Convert(ch, alt, width, v) ==
    IF ch = ChS THEN [ok |-> TRUE, text |-> Pad(Str(v), width)]
    ELSE IF ch = ChD /\ IsInt(v) THEN [ok |-> TRUE, text |-> Pad(Decimal(v.int), width)]
    ELSE IF ch = ChX /\ IsInt(v)
         THEN [ok |-> TRUE,
               text |-> Pad((IF alt THEN <<Ch0, ChX>> ELSE << >>) \o Hex(v.int), width)]
    ELSE [ok |-> FALSE, text |-> << >>]

\* the formatter at position i of f, with args[argidx] the next argument: the
\* text, or an error for an incomplete or unsupported conversion, a missing
\* argument, an argument of the wrong type, or arguments left over
RECURSIVE FormatLoop(_, _, _, _, _)
FormatLoop(f, i, args, argidx, out) ==
    IF i > Len(f) THEN [ok |-> argidx > Len(args), text |-> out]
    ELSE IF f[i] # PERCENT THEN FormatLoop(f, i + 1, args, argidx, Append(out, f[i]))
    ELSE LET j == SkipFlags(f, i + 1)
             k == SkipDigits(f, j)
             alt == \E x \in (i + 1)..(j - 1) : f[x] = HASH
         IN  IF k > Len(f) THEN [ok |-> FALSE, text |-> out]
             ELSE IF f[k] = PERCENT
                  THEN FormatLoop(f, k + 1, args, argidx, Append(out, PERCENT))
             ELSE IF argidx > Len(args) THEN [ok |-> FALSE, text |-> out]
             ELSE LET r == Convert(f[k], alt, WidthVal(f, j, k), args[argidx])
                  IN  IF ~r.ok THEN [ok |-> FALSE, text |-> out]
                      ELSE FormatLoop(f, k + 1, args, argidx + 1, out \o r.text)

\* out % tuple(args)
Format(f, args) == FormatLoop(f, 1, args, 1, << >>)

\* __common_printf(format, args, wstring): the text or an error, the args
\* list as the call leaves it, the strings it read
common_printf(format, args, wstring) ==
    LET fmtstr == Tail(Split(format, PERCENT))
        d == DerefLoop(fmtstr, 1, args, wstring, << >>)
        out == Replace(Replace(format, <<PERCENT, ChL, ChL, ChX>>, <<PERCENT, ChX>>),
                       <<PERCENT, ChP>>, <<PERCENT, HASH, ChX>>)
        r == Format(out, d.args)
    IN  [ok |-> d.ok /\ r.ok,
         text |-> IF d.ok /\ r.ok THEN r.text ELSE << >>,
         args |-> d.args, seen |-> d.seen]

\* str.encode('utf-8') and str.encode('utf-16le') for characters below U+0800
RECURSIVE EncodeUtf8(_)
EncodeUtf8(s) ==
    IF s = << >> THEN << >>
    ELSE (IF s[1] < 128 THEN <<s[1]>> ELSE <<192 + (s[1] \div 64), 128 + (s[1] % 64)>>)
         \o EncodeUtf8(Tail(s))

RECURSIVE EncodeUtf16le(_)
EncodeUtf16le(s) ==
    IF s = << >> THEN << >>
    ELSE <<s[1] % 256, s[1] \div 256>> \o EncodeUtf16le(Tail(s))

\* ql.mem.write(addr, data) on the window
MemPut(g, addr, data) ==
    [i \in 1..Len(g) |-> IF i > addr /\ i <= addr + Len(data) THEN data[i - addr] ELSE g[i]]

\* the index after the readers filed every string of seen
RECURSIVE AppearAll(_, _, _)
AppearAll(index, seen, counter) ==
    IF seen = << >> THEN index
    ELSE AppearAll(Appear(index, Head(seen), counter), Tail(seen), counter)

\* what a formatting call leaves in the ledger: the strings it read
ObserveAll(seen) ==
    /\ appeared_strings' = AppearAll(appeared_strings, seen, syscalls_counter)
    /\ n_obs' = n_obs + Len(seen)
    /\ UNCHANGED <<syscalls, syscalls_counter, call_log>>

\* the record of a finished formatting call
Called(op, format, args, wstring, buff, r, ok) ==
    [stage |-> "done", op |-> op, format |-> format, passed |-> args, args |-> r.args,
     wstring |-> wstring, buff |-> buff, ok |-> ok,
     out |-> IF ok THEN r.text ELSE << >>,
     ret |-> IF ok THEN PyInt(Len(r.text)) ELSE PyNone]

\* sprintf(buff, format, args, wstring)
sprintf(buff, format, args, wstring) ==
    /\ fmt.stage \in {"idle", "staged"}
    /\ LET r == common_printf(format, args, wstring)
           data == IF wstring THEN EncodeUtf16le(r.text \o <<0>>)
                   ELSE EncodeUtf8(r.text \o <<0>>)
           ok == r.ok /\ Mapped(buff, Len(data))
       IN  /\ ObserveAll(r.seen)
           /\ gmem' = IF ok THEN MemPut(gmem, buff, data) ELSE gmem
           /\ fmt' = Called("sprintf", format, args, wstring, buff, r, ok)
           /\ last' = [op |-> "sprintf", arg |-> format, ok |-> ok,
                       text |-> IF ok THEN r.text ELSE << >>]
    /\ UNCHANGED stdout
    /\ UNCHANGED <<io_vars, mcu_vars>>

\* printf(format, args, wstring)
printf(format, args, wstring) ==
    /\ fmt.stage \in {"idle", "staged"}
    /\ LET r == common_printf(format, args, wstring)
       IN  /\ ObserveAll(r.seen)
           /\ stdout' = IF r.ok THEN stdout \o EncodeUtf8(r.text) ELSE stdout
           /\ fmt' = Called("printf", format, args, wstring, 0, r, r.ok)
           /\ last' = [op |-> "printf", arg |-> format, ok |-> r.ok,
                       text |-> IF r.ok THEN r.text ELSE << >>]
    /\ UNCHANGED gmem
    /\ UNCHANGED <<io_vars, mcu_vars>>

\* a hook fetches the variadic arguments of a format before it formats
fetch_args(format, ptr) ==
    /\ fmt.stage = "idle"
    /\ LET r == va_list(format, ptr)
       IN  fmt' = [NoCall EXCEPT !.stage = IF r.ok THEN "staged" ELSE "done",
                                 !.op = "va_list", !.format = format,
                                 !.passed = r.args, !.args = r.args, !.ok = r.ok]
    /\ last' = [op |-> "va_list", arg |-> format, ok |-> TRUE, text |-> << >>]
    /\ UNCHANGED <<ledger_vars, gmem, stdout>>
    /\ UNCHANGED <<io_vars, mcu_vars>>

(***************************************************************************)
(* QlOsMcu: the single-step run loop.                                      *)
(***************************************************************************)
\* run was not called, or has returned
NoRun ==
    [stage |-> "idle", count |-> 0, end |-> 0, steps |-> 0, n |-> PyNone, e |-> PyNone]

\* x | t for a thumb bit t
OrThumb(x, t) == IF t = 1 /\ x % 2 = 0 THEN x + 1 ELSE x

\* the addresses of the instructions emulated
Addrs == {0, 2, 4}

\* what ql.arch.get_pc() can return: the address of the next instruction, for
\* ARM with the thumb bit in bit 0
GetPcVals == IF arch.arm THEN {OrThumb(a, arch.thumb) : a \in Addrs} ELSE Addrs

\* a loop that forgets to count its steps
NextCount_Keep(count) == count

\* a loop that counts its steps upwards
NextCount_Up(count) == count + 1

\* count -= 1
NextCount(count) == count - 1

\* run(count, end) up to its loop
run(count, end) ==
    /\ run_frame.stage = "idle"
    /\ runable' = TRUE
    /\ LET end0 == IF end = PyNone THEN -1 ELSE end.int
           count0 == IF count = PyNone THEN -1 ELSE count.int
           end1 == IF arch.arm THEN OrThumb(end0, arch.thumb) ELSE end0
       IN  run_frame' = [stage |-> "loop", count |-> count0, end |-> end1, steps |-> 0,
                         n |-> count, e |-> end]
    /\ UNCHANGED <<arch, cpu_pc>>
    /\ UNCHANGED <<ledger_vars, gmem, last, io_vars, fmt_vars>>

\* the loop condition of run
LoopCondition == runable /\ cpu_pc # run_frame.end

\* one pass of the loop: step() emulates one instruction, which moves pc and
\* whose hooks may call stop(), then steps the hardware; then the count
step(next_pc, hook_stops) ==
    /\ run_frame.stage = "loop"
    /\ LoopCondition
    /\ run_frame.steps < MaxSteps
    /\ cpu_pc' = next_pc
    /\ runable' = IF hook_stops THEN FALSE ELSE runable
    /\ LET count == NextCount(run_frame.count)
       IN  run_frame' = [run_frame EXCEPT
                            !.count = count,
                            !.steps = @ + 1,
                            !.stage = IF count = 0 THEN "done" ELSE "loop"]
    /\ UNCHANGED arch
    /\ UNCHANGED <<ledger_vars, gmem, last, io_vars, fmt_vars>>

\* the loop condition fails: run returns
run_exit ==
    /\ run_frame.stage = "loop"
    /\ ~LoopCondition
    /\ run_frame' = [run_frame EXCEPT !.stage = "done"]
    /\ UNCHANGED <<arch, runable, cpu_pc>>
    /\ UNCHANGED <<ledger_vars, gmem, last, io_vars, fmt_vars>>

\* stop() called while run is not looping
stop ==
    /\ run_frame.stage \in {"idle", "done"}
    /\ runable
    /\ runable' = FALSE
    /\ UNCHANGED <<arch, cpu_pc, run_frame>>
    /\ UNCHANGED <<ledger_vars, gmem, last, io_vars, fmt_vars>>

\* the caller of run goes on
run_returned ==
    /\ run_frame.stage = "done"
    /\ run_frame' = NoRun
    /\ UNCHANGED <<arch, runable, cpu_pc>>
    /\ UNCHANGED <<ledger_vars, gmem, last, io_vars, fmt_vars>>

(***************************************************************************)
(* Specifications.                                                         *)
(***************************************************************************)
NoOp == [op |-> "init", arg |-> << >>, ok |-> TRUE, text |-> << >>]

\* no formatting call yet, nothing written to stdout
FmtIdle ==
    /\ fmt = NoCall
    /\ stdout = << >>

\* an MCU that was constructed and never run
McuIdle ==
    /\ arch = [arm |-> TRUE, thumb |-> 1]
    /\ runable = TRUE
    /\ cpu_pc = 0
    /\ run_frame = NoRun

\* no I/O request yet: the state the ledger and reader specifications keep
IoIdle ==
    /\ ql \in {[ostype |-> "WINDOWS", archtype |-> "X8664", archbit |-> 64]}
    /\ driver_object = [MajorFunction |-> [f \in {IRP_MJ_WRITE, IRP_MJ_DEVICE_CONTROL} |-> 0],
                        DeviceObject |-> DeviceObjectAddr]
    /\ mem = [a \in HeapAddrs \cup {DeviceObjectAddr} |->
                IF a = DeviceObjectAddr THEN DeviceObject(64, 0) ELSE Freed]
    /\ heap = {}
    /\ req = NoRequest
    /\ pc = "idle"
    /\ ret = PyNone
    /\ oplog = << >>
    /\ FmtIdle
    /\ McuIdle

LedgerInit ==
    /\ syscalls = EmptyDict
    /\ syscalls_counter = 0
    /\ appeared_strings = EmptyDict
    /\ call_log = << >>
    /\ n_obs = 0
    /\ last = NoOp

\* the guest memory image the ledger specification starts from:
\* b'a b\x00\x00\x00'
LedgerImages == {<<ChA, SPACE, ChB, 0, 0, 0>>}

Init ==
    /\ LedgerInit
    /\ IoIdle
    /\ gmem \in LedgerImages

CallApi ==
    \E name \in ApiNames, retval \in RetVals :
        call_api(4096, name, << >>, retval, 4100)

ClearSyscalls == clear_syscalls

StringAppearance == \E s \in Texts : string_appearance(s)

ReadWString == \E address \in 0..(Len(gmem) - 1) : read_wstring(address)

ReadCString == \E address \in 0..(Len(gmem) - 1) : read_cstring(address)

Next ==
    \/ CallApi
    \/ ClearSyscalls
    \/ StringAppearance
    \/ ReadWString
    \/ ReadCString

Spec == Init /\ [][Next]_vars

\* every image of the guest-memory window
AllImages == [1..MemLen -> ByteVals]

StrInit ==
    /\ LedgerInit
    /\ IoIdle
    /\ gmem \in AllImages

\* one reader call on an arbitrary image
StrNext ==
    \/ (last.op = "init" /\ ReadWString)
    \/ (last.op = "init" /\ ReadCString)

SpecStr == StrInit /\ [][StrNext]_vars

(***************************************************************************)
(* The I/O request specification: a driver loaded on some platform, with   *)
(* or without WRITE and DEVICE_CONTROL routines, serving requests one      *)
(* after the other.                                                        *)
(***************************************************************************)
\* the flags of the device object: none, buffered, direct, both
FlagVals == {0, DO_BUFFERED_IO, DO_DIRECT_IO, DO_BUFFERED_IO + DO_DIRECT_IO}

\* device type, function and access of the control codes requested:
\* FILE_DEVICE_UNKNOWN with a function that reaches into the access bits, and
\* the largest value of each field
CodeFields == {<<34, 4096, 1>>, <<32767, 4095, 3>>}

\* the dispatch tables of the drivers loaded: nothing registered, or both the
\* WRITE and the DEVICE_CONTROL routine
DispatchTables ==
    {[f \in {IRP_MJ_WRITE, IRP_MJ_DEVICE_CONTROL} |-> 0],
     [f \in {IRP_MJ_WRITE, IRP_MJ_DEVICE_CONTROL} |->
         IF f = IRP_MJ_WRITE THEN WriteEntry ELSE DeviceControlEntry]}

Methods == {METHOD_BUFFERED, METHOD_IN_DIRECT, METHOD_OUT_DIRECT, METHOD_NEITHER}

IoInit ==
    /\ LedgerInit
    /\ gmem = << >>
    /\ ql \in Platforms
    /\ \E table \in DispatchTables :
          driver_object = [MajorFunction |-> table, DeviceObject |-> DeviceObjectAddr]
    /\ \E flags \in FlagVals :
          mem = [a \in HeapAddrs \cup {DeviceObjectAddr} |->
                    IF a = DeviceObjectAddr THEN DeviceObject(VariantByArchbit, flags)
                    ELSE Freed]
    /\ heap = {}
    /\ req = NoRequest
    /\ pc = "idle"
    /\ ret = PyNone
    /\ oplog = << >>
    /\ FmtIdle
    /\ McuIdle

IoWrite == \E in_buffer \in InBuffers, fill \in FillVals : io_Write(in_buffer, fill)

IoWriteReturn == io_Write_return

Ioctl ==
    \E f \in CodeFields, method \in Methods, output_buffer_size \in 0..MaxLen,
       in_buffer \in InBuffers, fill \in FillVals :
        ioctl(<<<<f[1], f[2], method, f[3]>>, output_buffer_size, in_buffer>>, fill)

IoctlReturn == ioctl_return

RunDispatch ==
    \E status \in StatusVals, information \in 0..MaxInfo, touch \in BOOLEAN,
       outcome \in {"return", "benign", "fatal"} :
        Dispatch(status, information, touch, outcome)

\* the caller has taken the result; the next request may come
Returned ==
    /\ pc = "done"
    /\ pc' = "idle"
    /\ req' = NoRequest
    /\ ret' = PyNone
    /\ oplog' = << >>
    /\ UNCHANGED <<ql, driver_object, mem, heap>>
    /\ UNCHANGED <<ledger_vars, gmem, last, fmt_vars, mcu_vars>>

IoNext ==
    \/ Returned
    \/ IoWrite
    \/ IoWriteReturn
    \/ Ioctl
    \/ IoctlReturn
    \/ RunDispatch

SpecIo == IoInit /\ [][IoNext]_vars

(***************************************************************************)
(* The formatting specification: one printf or sprintf call, on arguments  *)
(* passed by the caller or fetched by va_list before.                      *)
(***************************************************************************)
FmtChars == {PERCENT, ChS, ChD, Ch2, ChZ, ChP}

\* every format text of at most MaxFmtLen characters
Formats == UNION {[1..n -> FmtChars] : n \in 0..MaxFmtLen}

\* the pointers passed as arguments: the strings at 0 and at 3
PtrVals == {0, 3}

ArgLists == UNION {[1..n -> {PyInt(p) : p \in PtrVals}] : n \in 0..MaxArgs}

\* where the variadic arguments lie, and where sprintf writes
VaAddr == 9
OutAddr == 25

\* guest memory: b'a\0\0b\0a\0\0\0', two 64-bit words 3 and 0, and room for
\* the text of sprintf
FmtImage ==
    <<ChA, 0, 0, ChB, 0, ChA, 0, 0, 0>>
    \o <<3, 0, 0, 0, 0, 0, 0, 0>> \o <<0, 0, 0, 0, 0, 0, 0, 0>>
    \o [i \in 1..(2 * (MaxFmtLen + 2)) |-> 0]

FmtInit ==
    /\ LedgerInit
    /\ IoIdle
    /\ gmem = FmtImage

VaList == \E format \in Formats : fetch_args(format, VaAddr)

Sprintf ==
    \E wstring \in BOOLEAN :
        \/ /\ fmt.stage = "idle"
           /\ \E format \in Formats, args \in ArgLists :
                 sprintf(OutAddr, format, args, wstring)
        \/ /\ fmt.stage = "staged"
           /\ sprintf(OutAddr, fmt.format, fmt.args, wstring)

Printf ==
    \E wstring \in BOOLEAN :
        \/ /\ fmt.stage = "idle"
           /\ \E format \in Formats, args \in ArgLists : printf(format, args, wstring)
        \/ /\ fmt.stage = "staged"
           /\ printf(fmt.format, fmt.args, wstring)

FmtNext ==
    \/ VaList
    \/ Sprintf
    \/ Printf

SpecFmt == FmtInit /\ [][FmtNext]_vars

(***************************************************************************)
(* The MCU specification: runs of the single-step loop, with hooks that    *)
(* may stop it; the loop itself goes on as long as it can.                 *)
(***************************************************************************)
\* count and end as passed to run: left out, or a number
Counts == {PyNone} \cup {PyInt(n) : n \in 0..MaxCount}

Ends == {PyNone, PyInt(1), PyInt(2)}

Archs == {[arm |-> FALSE, thumb |-> 0], [arm |-> TRUE, thumb |-> 0],
          [arm |-> TRUE, thumb |-> 1]}

McuInit ==
    /\ LedgerInit
    /\ gmem = << >>
    /\ ql \in {[ostype |-> "MCU", archtype |-> "CORTEX_M", archbit |-> 32]}
    /\ driver_object = [MajorFunction |-> [f \in {IRP_MJ_WRITE, IRP_MJ_DEVICE_CONTROL} |-> 0],
                        DeviceObject |-> DeviceObjectAddr]
    /\ mem = [a \in HeapAddrs \cup {DeviceObjectAddr} |-> Freed]
    /\ heap = {}
    /\ req = NoRequest
    /\ pc = "idle"
    /\ ret = PyNone
    /\ oplog = << >>
    /\ FmtIdle
    /\ arch \in Archs
    /\ runable = TRUE
    /\ cpu_pc \in GetPcVals
    /\ run_frame = NoRun

Run == \E count \in Counts, end \in Ends : run(count, end)

Step == \E next_pc \in GetPcVals, hook_stops \in BOOLEAN : step(next_pc, hook_stops)

RunExit == run_exit

Stop == stop

RunReturned == run_returned

McuNext ==
    \/ Run
    \/ Step
    \/ RunExit
    \/ Stop
    \/ RunReturned

\* the loop is not suspended: a pass or the exit that can be taken is taken
SpecMcu == McuInit /\ [][McuNext]_vars /\ WF_vars(Step) /\ WF_vars(RunExit)

(***************************************************************************)
(* Properties of the call ledger.                                          *)
(***************************************************************************)
\* how often key occurs among the first i entries of log
Occurrences(log, key, i) == Cardinality({j \in 1..i : log[j] = key})

\* the record the ledger holds for the i-th call since the last reset
RecordOfCall(i) == syscalls[call_log[i]][Occurrences(call_log, call_log[i], i)]

LedgerInCallOrder ==
    /\ syscalls_counter = Len(call_log)
    /\ \A key \in DOMAIN syscalls :
           Len(syscalls[key]) = Occurrences(call_log, key, Len(call_log))
    /\ \A i \in 1..Len(call_log) :
           /\ call_log[i] \in DOMAIN syscalls
           /\ RecordOfCall(i).position = i - 1

\* a call recorded right after a reset, as a step
FirstCallAfterReset ==
    (last.op = "clear_syscalls" /\ last'.op = "call_api") =>
        /\ Len(call_log') = 1
        /\ RecordOfCall(1)'.position = 0

\* C2: the positions of the call records are 0, 1, ..., n-1 in call order,
\* whatever the API names are, and the first call recorded after
\* clear_syscalls gets position 0 again.
C2_PositionsInCallOrder == [](LedgerInCallOrder) /\ [][FirstCallAfterReset]_vars

\* two calls filed under one name ('hook_f' and 'f') hold positions 0 and 1
C2_Witness ==
    /\ last.op = "call_api"
    /\ call_log = <<<<ChF>>, <<ChF>>>>
    /\ syscalls[<<ChF>>][1].position = 0
    /\ syscalls[<<ChF>>][2].position = 1
    /\ last.arg = HookPrefix \o <<ChF>>

(***************************************************************************)
(* Properties of the string-appearance index.                              *)
(***************************************************************************)
\* the tokens of s: the maximal space-free stretches between single spaces,
\* empty ones included
TokensOf(s) ==
    {SubSeq(s, i, j) : <<i, j>> \in
        {p \in (1..(Len(s) + 1)) \X (0..Len(s)) :
            /\ p[2] >= p[1] - 1
            /\ \A k \in p[1]..p[2] : s[k] # SPACE
            /\ (p[1] = 1 \/ s[p[1] - 1] = SPACE)
            /\ (p[2] = Len(s) \/ s[p[2] + 1] = SPACE)}}

Observations == {"string_appearance", "read_cstring", "read_wstring"}

\* a step that observed the text last'.text
ObservationStep ==
    (last'.op \in Observations /\ last'.ok) =>
        /\ \A t \in TokensOf(last'.text) :
               /\ t \in DOMAIN appeared_strings'
               /\ appeared_strings'[t] =
                      SetDefault(appeared_strings, t, {}) \cup {Len(call_log)}
        /\ \A t \in DOMAIN appeared_strings' \ TokensOf(last'.text) :
               /\ t \in DOMAIN appeared_strings
               /\ appeared_strings'[t] = appeared_strings[t]
        /\ UNCHANGED <<syscalls, syscalls_counter>>

\* positions go away by reset only, and reset empties the index
RemovedByResetOnly ==
    /\ (last'.op # "clear_syscalls") =>
           \A t \in DOMAIN appeared_strings :
               /\ t \in DOMAIN appeared_strings'
               /\ appeared_strings[t] \subseteq appeared_strings'[t]
    /\ (last'.op = "clear_syscalls") => appeared_strings' = EmptyDict

\* C9: string_appearance, and read_cstring / read_wstring through it, adds the
\* current counter (the number of calls recorded so far) to the position set of
\* every token of the text split on single spaces, leaves the ledger and the
\* counter alone; positions accumulate and are removed only by reset.
C9_AppearancePositions ==
    /\ [](syscalls_counter = Len(call_log))
    /\ [][ObservationStep /\ RemovedByResetOnly]_vars

\* 'a' seen by read_cstring before the first call and again after it
C9_Witness ==
    /\ last.op = "read_cstring"
    /\ last.text = <<ChA, SPACE, ChB>>
    /\ syscalls_counter = 1
    /\ appeared_strings[<<ChA>>] = {0, 1}

(***************************************************************************)
(* Properties of the string readers.                                       *)
(***************************************************************************)
\* the k-th chunk (k = 0, 1, ...) of width w from address
ChunkAt(address, w, k) == MemBytes(address + k * w, w)

ZeroBytes(w) == [i \in 1..w |-> 0]

\* the chunks from address that lie in mapped memory
ChunksIn(address, w) == {k \in 0..Len(gmem) : Mapped(address + k * w, w)}

\* the indexes of the chunks equal to the terminator with every chunk before
\* them different from it: the first terminator chunk, when there is one
FirstTerminator(address, w) ==
    {k \in ChunksIn(address, w) :
        /\ ChunkAt(address, w, k) = ZeroBytes(w)
        /\ \A j \in 0..(k - 1) : ChunkAt(address, w, j) # ZeroBytes(w)}

\* the text of the chunks 0 .. k-1
RECURSIVE TextBefore(_, _, _)
TextBefore(address, w, k) ==
    IF k = 0 THEN << >>
    ELSE TextBefore(address, w, k - 1) \o Decode(ChunkAt(address, w, k - 1))

ReaderWidth == IF last.op = "read_wstring" THEN 2 ELSE 1

\* C10: read_string reads chunks of terminator width at address, address+w, ...
\* and stops at the first chunk equal to the terminator, returning the text of
\* the chunks before it; read_wstring returns that text without its null
\* characters, so the wide "ab" followed by two zero bytes reads as "ab".
C10_ReadTerminated ==
    (last.op \in {"read_cstring", "read_wstring"}) =>
        LET first == FirstTerminator(last.arg, ReaderWidth)
        IN  /\ last.ok <=> first # {}
            /\ last.ok =>
                  \A k \in first :
                      LET text == TextBefore(last.arg, ReaderWidth, k)
                      IN  /\ last.op = "read_cstring" => last.text = text
                          /\ last.op = "read_wstring" =>
                                 /\ \A i \in 1..Len(last.text) : last.text[i] # 0
                                 /\ last.text = SelectSeq(text, LAMBDA c : c # 0)
            /\ ( /\ last.op = "read_wstring"
                 /\ Mapped(last.arg, 6)
                 /\ MemBytes(last.arg, 6) = <<ChA, 0, ChB, 0, 0, 0>> )
               => (last.ok /\ last.text = <<ChA, ChB>>)

\* the wide "ab" and its terminator at address 0, read by read_wstring
C10_Witness ==
    /\ last.op = "read_wstring"
    /\ last.arg = 0
    /\ SubSeq(gmem, 1, 6) = <<ChA, 0, ChB, 0, 0, 0>>
    /\ last.text = <<ChA, ChB>>

(***************************************************************************)
(* Properties of the I/O requests.                                         *)
(***************************************************************************)
\* how often the request called op on addr
Calls(op, addr) == Cardinality({i \in DOMAIN oplog : oplog[i].op = op /\ oplog[i].addr = addr})

\* the addresses the request called op on
CalledOn(op) == {oplog[i].addr : i \in {j \in DOMAIN oplog : oplog[j].op = op}}

\* a request that came back to its caller with a result
Completed == pc = "done" /\ req.kind \in {"io_Write", "ioctl"}

\* C1: when an io_Write or ioctl request has completed (the dispatch routine
\* returned, or its fault was taken as benign), every address the guest heap
\* handed out for the request was passed to heap.free exactly once, and
\* nothing else was freed.
C1_ScratchFreedOnce ==
    Completed =>
        /\ \A a \in CalledOn("alloc") : Calls("alloc", a) = 1 /\ Calls("free", a) = 1
        /\ CalledOn("free") \subseteq CalledOn("alloc")
        /\ heap = {}

\* an ioctl with a direct method, ended by a benign fault: seven allocations
C1_Witness ==
    /\ Completed
    /\ req.kind = "ioctl"
    /\ req.fault = "benign"
    /\ Cardinality(CalledOn("alloc")) = 7
    /\ Cardinality(CalledOn("free")) = 7

\* the request touched neither the heap, nor guest memory, nor the emulator
NoSideEffects ==
    /\ oplog = << >>
    /\ heap = {}
    /\ \A a \in HeapAddrs : mem[a] = Freed

\* an ioctl that found the DEVICE_CONTROL entry null
IoctlOnNullEntry == req.kind = "ioctl" /\ pc # "idle" /\ req.entry = 0

\* C3 as stated: an ioctl on a null DEVICE_CONTROL entry returns
\* (None, None, empty) and is rejected without allocation, memory write or
\* dispatch.
C3_Original ==
    IoctlOnNullEntry =>
        /\ pc = "done"
        /\ ret = PyTuple(<<PyNone, PyNone, PyBytes(<< >>)>>)
        /\ NoSideEffects

\* C3, amended: an ioctl on a null DEVICE_CONTROL entry is rejected without
\* allocation, memory write or dispatch; on Windows it returns
\* (None, None, None), the third element being None and not an empty byte
\* string, and on any other OS it returns None.
C3_RejectedIoctl ==
    IoctlOnNullEntry =>
        /\ pc = "done"
        /\ ret = IF ql.ostype = "WINDOWS" THEN PyTuple(<<PyNone, PyNone, PyNone>>) ELSE PyNone
        /\ NoSideEffects

\* a rejected ioctl on Windows, asked for a direct transfer of b'AB'
C3_Witness ==
    /\ IoctlOnNullEntry
    /\ ql.ostype = "WINDOWS"
    /\ req.ctl_method = METHOD_IN_DIRECT
    /\ req.in_buffer = <<65, 66>>
    /\ ret = PyTuple(<<PyNone, PyNone, PyNone>>)

\* C4: an io_Write on a null WRITE entry returns (False, None) without
\* allocation, memory write or dispatch, whatever the OS type and word size.
C4_Original ==
    (req.kind = "io_Write" /\ pc # "idle" /\ req.entry = 0) =>
        /\ pc = "done"
        /\ ret = PyTuple(<<PyBool(FALSE), PyNone>>)
        /\ NoSideEffects

\* the buffer the IRP in guest memory leads to, for the device's buffering mode
BufferOfIrp ==
    LET irp == mem[req.irp_addr]
    IN  IF BitAnd(req.flags, DO_BUFFERED_IO) # 0 THEN irp.SystemBuffer
        ELSE IF BitAnd(req.flags, DO_DIRECT_IO) # 0
             THEN IF irp.MdlAddress # 0 THEN mem[irp.MdlAddress].MappedSystemVa ELSE 0
        ELSE irp.UserBuffer

\* C5: when io_Write hands control to a registered WRITE routine, the buffer
\* the IRP leads to for the buffering mode (SystemBuffer, the MDL's mapped
\* address, UserBuffer) holds exactly the input bytes.
C5_Original ==
    (pc = "run" /\ req.kind = "io_Write" /\ req.entry # 0) =>
        /\ BufferOfIrp # 0
        /\ mem[BufferOfIrp].type = "raw"
        /\ mem[BufferOfIrp].bytes = req.in_buffer

\* the IRP as the dispatch routine left it
IrpAfterDispatch == mem[req.irp_addr]

\* where the output of a transfer method lies
MethodBuffer ==
    CASE req.ctl_method = METHOD_BUFFERED -> req.system_buffer_addr
      [] req.ctl_method \in {METHOD_IN_DIRECT, METHOD_OUT_DIRECT} ->
            mem[req.mdl_addr].MappedSystemVa
      [] req.ctl_method = METHOD_NEITHER -> req.output_buffer_addr

\* the step in which ioctl returns
IoctlReturns == pc = "recover" /\ req.kind = "ioctl" /\ pc' = "done"

IoctlResult ==
    IoctlReturns =>
        ret' = PyTuple(<<PyInt(IrpAfterDispatch.Status),
                         PyInt(IrpAfterDispatch.Information),
                         PyBytes(IF IrpAfterDispatch.Status >= 0
                                 THEN ReadBytes(mem, MethodBuffer,
                                                IrpAfterDispatch.Information)
                                 ELSE << >>)>>)

\* C6: a completed ioctl returns the status and the information count of the
\* IRP as re-read after dispatch, with `information` bytes of the method's
\* buffer (system buffer, the MDL's mapped address, output buffer) when the
\* status is >= 0 and with an empty payload when it is negative.
C6_IoctlResult == [][IoctlResult]_vars

\* STATUS_PENDING and two bytes the routine left in the MDL's buffer
C6_Witness ==
    /\ Completed
    /\ req.kind = "ioctl"
    /\ req.entry # 0
    /\ ql.ostype = "WINDOWS"
    /\ req.ctl_method = METHOD_OUT_DIRECT
    /\ ret = PyTuple(<<PyInt(STATUS_PENDING), PyInt(2),
                       PyBytes(<<GuestByte(req.mdl.MappedSystemVa),
                                 GuestByte(req.mdl.MappedSystemVa)>>)>>)

\* the step in which io_Write returns
WriteReturns == pc = "recover" /\ req.kind = "io_Write" /\ pc' = "done"

WriteResult ==
    WriteReturns =>
        ret' = PyTuple(<<PyBool(IrpAfterDispatch.Status >= 0),
                         PyInt(IrpAfterDispatch.Information)>>)

\* C7: a completed io_Write returns a success flag that is true exactly when
\* the status of the IRP re-read after dispatch indicates success, and the
\* IRP's Information count.
C7_Original == [][WriteResult]_vars

\* bit i of x
Bit(x, i) == (x \div (2 ^ i)) % 2 = 1

\* the control code in the stack location the request wrote
WrittenCode == mem[req.irpstack_addr].IoControlCode

\* C8: the control code written to the stack location is
\* (deviceType << 16) | (access << 14) | (function << 2) | method, and its
\* low two bits are the method.
C8_ControlCode ==
    (req.kind = "ioctl" /\ pc \in {"run", "recover", "raised"}) =>
        LET deviceType == req.ioctl_code[1]
            function == req.ioctl_code[2]
            method == req.ioctl_code[3]
            access == req.ioctl_code[4]
        IN  /\ \A i \in 0..30 :
                  Bit(WrittenCode, i) <=>
                      \/ Bit(deviceType * 65536, i)
                      \/ Bit(access * 16384, i)
                      \/ Bit(function * 4, i)
                      \/ Bit(method, i)
            /\ WrittenCode % 4 = method

\* function 0x1000 and access 1 land on the same bit: the code is
\* 0x224003, not the sum of the shifted fields
C8_Witness ==
    /\ req.kind = "ioctl"
    /\ pc = "run"
    /\ req.ioctl_code = <<34, 4096, METHOD_NEITHER, 1>>
    /\ WrittenCode = 2244611

(***************************************************************************)
(* Faults of the dispatch routine.                                         *)
(***************************************************************************)
\* the request ended with the fault propagating to the caller
Propagated == pc = "raised"

\* C12: scratch memory is released on the fatal path too: when the fault of
\* the dispatch routine propagates to the caller, every address the heap
\* handed out for the request has been freed.
C12_Original ==
    Propagated =>
        /\ \A a \in CalledOn("alloc") : Calls("free", a) = 1
        /\ heap = {}

\* the tuple a request returns for the IRP and the buffers found after the
\* dispatch routine, whichever way the routine ended
NormalResult ==
    IF req.kind = "io_Write"
    THEN PyTuple(<<PyBool(TRUE), PyInt(IrpAfterDispatch.Information)>>)
    ELSE PyTuple(<<PyInt(IrpAfterDispatch.Status), PyInt(IrpAfterDispatch.Information),
                   PyBytes(IF IrpAfterDispatch.Status < 0 THEN << >>
                           ELSE ReadBytes(mem, MethodBuffer,
                                          IrpAfterDispatch.Information))>>)

\* a fault taken as benign leaves the request where a normal return leaves it;
\* a fatal one ends it without a result
FaultOutcome ==
    /\ req.fault = "benign" => pc \in {"recover", "done"}
    /\ req.fault = "fatal" => Propagated
    /\ Propagated => req.fault = "fatal" /\ ret = PyNone
    /\ (pc = "done" /\ req.fault \in {"return", "benign"}) =>
           /\ ret # PyNone
           /\ Calls("read", req.irp_addr) = 1
           /\ heap = {}

\* the steps after the dispatch routine: the return builds the same tuple
\* after a benign fault as after a normal return, and nothing follows a
\* propagated fault
RecoverStep ==
    /\ (pc = "recover" /\ pc' = "done") => ret' = NormalResult
    /\ (pc = "recover" /\ pc' # "recover") => pc' = "done"
    /\ ~Propagated

\* C13: a fault of the dispatch routine that verify_ret takes as benign does
\* not leave io_Write/ioctl: the request re-reads the IRP, frees its scratch
\* memory and returns the tuple it returns after a normal return; a fault
\* taken as fatal propagates to the caller and no tuple is returned.
C13_FaultClassified == [](FaultOutcome) /\ [][RecoverStep]_vars

\* an ioctl that returned its tuple after a benign fault
C13_Witness ==
    /\ pc = "done"
    /\ req.kind = "ioctl"
    /\ req.fault = "benign"
    /\ ret = PyTuple(<<PyInt(STATUS_SUCCESS), PyInt(1),
                       PyBytes(<<GuestByte(req.system_buffer_addr)>>)>>)
    /\ req.ctl_method = METHOD_BUFFERED

\* a second state of that case: the fault was fatal and nothing was returned
C13_WitnessFatal == Propagated /\ req.kind = "io_Write" /\ ret = PyNone

(***************************************************************************)
(* Structure variants.                                                     *)
(***************************************************************************)
StructTypes == {"DEVICE_OBJECT", "IRP", "IO_STACK_LOCATION", "MDL"}

\* the calls of the request that took the size or the bytes of a structure
StructCalls == {i \in DOMAIN oplog : oplog[i].what \in StructTypes}

\* C14: within a request every structure (the device object read, the IRP,
\* the stack location and the MDL allocated and written, the IRP re-read) is
\* handled in one variant, the one of the emulated processor's word size.
C14_Original ==
    /\ \A i \in StructCalls : oplog[i].size = ql.archbit
    /\ \A a \in HeapAddrs : mem[a].type \in StructTypes => mem[a].layout = ql.archbit

(***************************************************************************)
(* Buffering of a write.                                                   *)
(***************************************************************************)
\* io_Write has staged its request and handed control to the WRITE routine
WriteDispatched == pc = "run" /\ req.kind = "io_Write"

\* the pointer fields of an IRP that are set
Populated(irp) == {f \in {"SystemBuffer", "MdlAddress", "UserBuffer"} : irp[f] # 0}

\* the size heap.alloc was asked for when it returned addr
AllocSize(addr) ==
    LET i == CHOOSE j \in DOMAIN oplog : oplog[j].op = "alloc" /\ oplog[j].addr = addr
    IN  oplog[i].size

\* C15: the buffering mode of a write comes from the device object's flags:
\* buffered when DO_BUFFERED_IO is set (alone or with DO_DIRECT_IO), else
\* direct when DO_DIRECT_IO is set, else neither; the IRP written has exactly
\* one of SystemBuffer, MdlAddress, UserBuffer set, and nothing but the
\* buffers of that mode is allocated.
C15_WriteMode ==
    WriteDispatched =>
        LET irp == mem[req.irp_addr]
            flags == mem[driver_object.DeviceObject].Flags
            structs == <<req.irp_addr, req.irpstack_addr>>
        IN  /\ Cardinality(Populated(irp)) = 1
            /\ IF Bit(flags, 2)
               THEN /\ Populated(irp) = {"SystemBuffer"}
                    /\ req.alloc_addr = structs \o <<irp.SystemBuffer>>
                    /\ mem[irp.SystemBuffer].type = "raw"
               ELSE IF Bit(flags, 4)
               THEN /\ Populated(irp) = {"MdlAddress"}
                    /\ mem[irp.MdlAddress].type = "MDL"
                    /\ req.alloc_addr =
                          structs \o <<mem[irp.MdlAddress].MappedSystemVa, irp.MdlAddress>>
                    /\ mem[mem[irp.MdlAddress].MappedSystemVa].type = "raw"
               ELSE /\ Populated(irp) = {"UserBuffer"}
                    /\ req.alloc_addr = structs \o <<irp.UserBuffer>>
                    /\ mem[irp.UserBuffer].type = "raw"
            /\ CalledOn("alloc") = Range(req.alloc_addr)

\* a device with both flags set: the write is buffered
C15_Witness ==
    /\ WriteDispatched
    /\ mem[driver_object.DeviceObject].Flags = DO_BUFFERED_IO + DO_DIRECT_IO
    /\ Populated(mem[req.irp_addr]) = {"SystemBuffer"}
    /\ Len(req.alloc_addr) = 3

\* a device with DO_DIRECT_IO alone: the write goes through an MDL
C15_WitnessDirect ==
    /\ WriteDispatched
    /\ mem[driver_object.DeviceObject].Flags = DO_DIRECT_IO
    /\ Populated(mem[req.irp_addr]) = {"MdlAddress"}
    /\ Len(req.alloc_addr) = 4

(***************************************************************************)
(* Buffered requests.                                                      *)
(***************************************************************************)
\* a buffered write, or an ioctl with METHOD_BUFFERED, at its dispatch
BufferedWrite == WriteDispatched /\ Bit(mem[driver_object.DeviceObject].Flags, 2)

BufferedIoctl == pc = "run" /\ req.kind = "ioctl" /\ req.ctl_method = METHOD_BUFFERED

\* the data buffers of the request: what it allocated besides the IRP and
\* the stack location
DataBuffers == CalledOn("alloc") \ {req.irp_addr, req.irpstack_addr}

\* the region at addr starts with the bytes of data
StartsWithInput(addr, data) ==
    /\ mem[addr].type = "raw"
    /\ Len(mem[addr].bytes) >= Len(data)
    /\ SubSeq(mem[addr].bytes, 1, Len(data)) = data

\* C16 as stated: a buffered request allocates, besides the IRP and the
\* stack location, one system buffer only, as long as the input and
\* pre-filled with it.
C16_Original ==
    (BufferedWrite \/ BufferedIoctl) =>
        /\ DataBuffers = {mem[req.irp_addr].SystemBuffer}
        /\ AllocSize(mem[req.irp_addr].SystemBuffer) = Len(req.in_buffer)
        /\ mem[mem[req.irp_addr].SystemBuffer].bytes = req.in_buffer

\* C16: a buffered write allocates one data buffer, the system buffer, as
\* long as the input and holding it. An ioctl with METHOD_BUFFERED allocates
\* three: an input buffer holding the input, an output buffer of the output
\* size, and a system buffer of the larger of the two sizes that starts with
\* the input.
C16_BufferedAllocations ==
    /\ BufferedWrite =>
          /\ DataBuffers = {mem[req.irp_addr].SystemBuffer}
          /\ AllocSize(mem[req.irp_addr].SystemBuffer) = Len(req.in_buffer)
          /\ mem[mem[req.irp_addr].SystemBuffer] = Raw(req.in_buffer)
    /\ BufferedIoctl =>
          LET sysbuf == mem[req.irp_addr].SystemBuffer
              inbuf == mem[req.irpstack_addr].Type3InputBuffer
          IN  /\ DataBuffers = {inbuf, req.output_buffer_addr, sysbuf}
              /\ Cardinality(DataBuffers) = 3
              /\ AllocSize(inbuf) = Len(req.in_buffer)
              /\ mem[inbuf] = Raw(req.in_buffer)
              /\ AllocSize(req.output_buffer_addr) = req.output_buffer_size
              /\ AllocSize(sysbuf) =
                    (IF Len(req.in_buffer) >= req.output_buffer_size
                     THEN Len(req.in_buffer) ELSE req.output_buffer_size)
              /\ Len(mem[sysbuf].bytes) = AllocSize(sysbuf)
              /\ StartsWithInput(sysbuf, req.in_buffer)

\* an ioctl with METHOD_BUFFERED, one byte in and two bytes out
C16_Witness ==
    /\ BufferedIoctl
    /\ Len(req.in_buffer) = 1
    /\ req.output_buffer_size = 2
    /\ AllocSize(mem[req.irp_addr].SystemBuffer) = 2

\* a buffered write of two bytes
C16_WitnessWrite ==
    /\ BufferedWrite
    /\ Len(req.in_buffer) = 2
    /\ mem[mem[req.irp_addr].SystemBuffer] = Raw(req.in_buffer)

(***************************************************************************)
(* Order of the calls of a request.                                        *)
(***************************************************************************)
\* the positions in the log of the calls named by ops
At(ops) == {i \in DOMAIN oplog : oplog[i].op \in ops}

\* every call named by first precedes every call named by then
Precede(first, then) == \A i \in At(first), j \in At(then) : i < j

\* the log of a request that reached its dispatch routine ends with the
\* write of the IRP, the two parameters and the run
DispatchedLast ==
    LET n == Len(oplog)
        irp == mem[req.irp_addr]
    IN  /\ n >= 3
        /\ oplog[n] = Event("run", req.entry, 0, "entry")
        /\ oplog[n - 1] =
              Event("writeParams", driver_object.DeviceObject, req.irp_addr, "POINTER")
        /\ oplog[n - 2].op = "write" /\ oplog[n - 2].addr = req.irp_addr
        /\ oplog[n - 2].what = "IRP"
        /\ irp.type = "IRP"
        /\ irp.irpstack = req.irpstack_addr
        /\ \E i \in 1..(n - 3) :
              /\ oplog[i].op = "write" /\ oplog[i].addr = irp.irpstack
              /\ oplog[i].what = "IO_STACK_LOCATION"
        /\ mem[irp.irpstack].type = "IO_STACK_LOCATION"
        /\ Populated(irp) # {}
        /\ \A f \in Populated(irp) : irp[f] \in Range(req.alloc_addr)
        /\ Range(req.alloc_addr) = CalledOn("alloc")

\* C17: a request that is not rejected hands control to the dispatch routine
\* only after all its allocations and after the stack location and the IRP
\* were written, the IRP last, pointing to the stack location written and to
\* its buffer or MDL; the parameters are the device object's address and the
\* IRP's, in that order.
C17_DispatchOrder ==
    /\ Precede({"alloc", "write"}, {"writeParams"})
    /\ Precede({"writeParams"}, {"run"})
    /\ Cardinality(At({"run"})) <= 1
    /\ pc = "run" => DispatchedLast

\* an ioctl with a direct method at its dispatch: seven allocations, written
\* stack location, MDL and IRP
C17_Witness ==
    /\ pc = "run"
    /\ req.kind = "ioctl"
    /\ req.ctl_method = METHOD_IN_DIRECT
    /\ Cardinality(At({"alloc"})) = 7
    /\ Populated(mem[req.irp_addr]) = {"SystemBuffer", "MdlAddress"}
    /\ oplog[Len(oplog) - 1].addr = DeviceObjectAddr
    /\ oplog[Len(oplog) - 1].size = req.irp_addr

\* C18: nothing is freed before the dispatch routine came back (or its fault
\* was absorbed) and before the IRP and, for ioctl, the output were read
\* back; no call reads or writes guest memory after the first free.
C18_ReleaseLast ==
    /\ Precede({"alloc", "write", "writeParams", "run", "returned", "UcError", "read"},
               {"free"})
    /\ At({"free"}) # {} =>
          /\ At({"returned", "UcError"}) # {}
          /\ \E i \in At({"read"}) : oplog[i].addr = req.irp_addr /\ oplog[i].what = "IRP"
          /\ pc = "done"

\* a completed ioctl that read two bytes of output before it freed anything
C18_Witness ==
    /\ pc = "done"
    /\ req.kind = "ioctl"
    /\ \E i \in At({"read"}) : oplog[i].what = "raw" /\ oplog[i].size = 2
    /\ Cardinality(At({"free"})) = 5

(***************************************************************************)
(* Properties of printf and sprintf.                                       *)
(***************************************************************************)
\* a printf or sprintf call has been made
Formatted == fmt.stage = "done" /\ fmt.op \in {"sprintf", "printf"}

\* the text handed to the formatter
FormatterText(format) ==
    Replace(Replace(format, <<PERCENT, ChL, ChL, ChX>>, <<PERCENT, ChX>>),
            <<PERCENT, ChP>>, <<PERCENT, HASH, ChX>>)

\* the conversions of f that consume an argument, in order: the character
\* that ends each (after flags and width), '%%' left out; 0 stands for a
\* conversion the text ends in
RECURSIVE Conversions(_, _)
Conversions(f, i) ==
    IF i > Len(f) THEN << >>
    ELSE IF f[i] # PERCENT THEN Conversions(f, i + 1)
    ELSE LET k == SkipDigits(f, SkipFlags(f, i + 1))
         IN  IF k > Len(f) THEN <<0>>
             ELSE IF f[k] = PERCENT THEN Conversions(f, k + 1)
             ELSE <<f[k]>> \o Conversions(f, k + 1)

\* the formatter accepts the text and consumes exactly the arguments passed
Consumes(f, args) ==
    /\ Len(Conversions(f, 1)) = Len(args)
    /\ \A k \in 1..Len(args) : Conversions(f, 1)[k] \in {ChS, ChD, ChX}

\* C11: in the args list a formatting call leaves, the slot the formatter
\* consumes for a string conversion ('s', with or without flags and width)
\* holds the string read from guest memory at the address that was in the
\* slot, and the slot of every other conversion holds what was passed.
C11_Original ==
    (Formatted /\ Consumes(FormatterText(fmt.format), fmt.passed)) =>
        \A k \in 1..Len(fmt.passed) :
            fmt.args[k] =
                IF Conversions(FormatterText(fmt.format), 1)[k] = ChS
                THEN PyStr(ReadText(fmt.passed[k].int, fmt.wstring).text)
                ELSE fmt.passed[k]

\* C19: for a format text without '%', whatever the argument list, the call
\* raises nothing, the text it produces is the format text, the count it
\* returns is the length of the format text, and the bytes written to guest
\* memory (with a terminator) or to stdout are the encoded format text.
C19_Original ==
    (Formatted /\ Count(fmt.format, PERCENT) = 0) =>
        /\ fmt.ok
        /\ fmt.out = fmt.format
        /\ fmt.ret = PyInt(Len(fmt.format))
        /\ fmt.op = "printf" => stdout = EncodeUtf8(fmt.format)
        /\ fmt.op = "sprintf" =>
              LET data == IF fmt.wstring THEN EncodeUtf16le(fmt.format \o <<0>>)
                          ELSE EncodeUtf8(fmt.format \o <<0>>)
              IN  MemBytes(fmt.buff, Len(data)) = data

(***************************************************************************)
(* Properties of the run loop.                                             *)
(***************************************************************************)
\* run was called with a count of at least 1
Counted == run_frame.stage # "idle" /\ IsInt(run_frame.n) /\ run_frame.n.int >= 1

\* the steps of a counted run do not exceed the count
StepsBounded == Counted => run_frame.steps <= run_frame.n.int

\* the program counter is at the end address passed to run: get_pc reports
\* it, for ARM in Thumb state with the thumb bit
AtEnd ==
    /\ IsInt(run_frame.e)
    /\ \/ cpu_pc = run_frame.e.int
       \/ arch.arm /\ arch.thumb = 1 /\ cpu_pc = OrThumb(run_frame.e.int, 1)

\* the loop passes once: one instruction and one hardware step
StepTaken == run_frame.stage = "loop" /\ run_frame'.steps = run_frame.steps + 1

\* a pass is taken only with the flag set and away from the end address, and
\* it counts one step
StepChecked ==
    /\ StepTaken => runable /\ ~AtEnd /\ run_frame'.count = run_frame.count - 1
    /\ run_frame.stage = "loop" /\ run_frame'.stage = "loop" => StepTaken
    /\ (StepTaken /\ Counted /\ run_frame'.steps = run_frame.n.int) =>
           run_frame'.stage = "done"

\* C20: run(count=n, end=e) with n >= 1 takes at most n steps, takes no step
\* with the flag cleared or with the program counter at e, leaves the loop
\* right after the n-th step, and so returns.
C20_RunBounded ==
    /\ [](StepsBounded)
    /\ [][StepChecked]_vars
    /\ (Counted /\ run_frame.stage = "loop") ~> (run_frame.stage = "done")

\* a run of count 2 that ended with its second step, away from the end address
C20_Witness ==
    /\ run_frame.stage = "done"
    /\ run_frame.n = PyInt(2)
    /\ run_frame.steps = 2
    /\ run_frame.count = 0
    /\ runable
    /\ ~AtEnd

\* run was called without a count, or with count 0
Uncounted == run_frame.stage # "idle" /\ run_frame.n \in {PyNone, PyInt(0)}

\* a run whose flag was cleared by a hook takes no further step: it returns
StoppedRunEnds ==
    (run_frame.stage = "loop" /\ ~runable) =>
        /\ run_frame'.stage = "done"
        /\ run_frame'.steps = run_frame.steps
        /\ cpu_pc' = cpu_pc

\* run sets the flag when it is entered, whatever stop() did before
ReArmed == (run_frame.stage = "idle" /\ run_frame'.stage = "loop") => runable'

\* a run without a count leaves the loop only at the loop condition: no step
\* of it ends the run
NeverEndedByCount ==
    /\ (Uncounted /\ StepTaken) => run_frame'.stage = "loop"
    /\ (Uncounted /\ run_frame.stage = "loop" /\ run_frame'.stage = "done") =>
           /\ ~runable \/ cpu_pc = run_frame.end
           /\ run_frame'.steps = run_frame.steps

\* a run that has not stepped yet has its flag set: away from its end
\* address, its first step can be taken
FirstStepOpen ==
    (run_frame.stage = "loop" /\ run_frame.steps = 0) =>
        /\ runable
        /\ cpu_pc # run_frame.end => ENABLED Step

\* C21: a stop() issued by a hook during a step ends the run with no step
\* after that one; run sets the flag again on entry, so a stop() issued
\* before run is called does not keep the run from stepping; a run given no
\* count, or count 0, is never ended by the step count.
C21_StopAndReArm ==
    /\ [][StoppedRunEnds]_vars
    /\ [][ReArmed]_vars
    /\ [][NeverEndedByCount]_vars
    /\ [](FirstStepOpen)

\* a run of count 2 ended after its first step, whose hook called stop()
C21_Witness ==
    /\ run_frame.stage = "done"
    /\ run_frame.n = PyInt(2)
    /\ run_frame.steps = 1
    /\ ~runable
    /\ ~AtEnd

\* stop() was called with no run under way: the flag is cleared before run
C21_WitnessStopBefore == run_frame.stage = "idle" /\ ~runable

\* a run without a count that is still looping after MaxCount + 1 steps
C21_WitnessUncounted ==
    /\ run_frame.stage = "loop"
    /\ run_frame.n = PyNone
    /\ run_frame.steps = MaxCount + 1
    /\ runable

====
